---- MODULE Spec2Model ----
(***************************************************************************)
(* Model of src/components/app_server.py of the Map Demonstrator backend:  *)
(* the GeoJSON store (load_geojson / _load_from_single_path with its cache, *)
(* lock, retry loop and fallback path) and the precinct_overlay handler     *)
(* (indicator resolution, dataset selection, overlay and sort).             *)
(***************************************************************************)
EXTENDS Integers, Sequences, FiniteSets, TLC

None == "None"

\* Python's None where a parsed collection, a cache entry or a result is expected
NoData == [src |-> None, ver |-> 0]
NoEntry == [mtime |-> 0, data |-> NoData]
NoResult ==
    [kind |-> None, path |-> None, mtime |-> 0, data |-> NoData, err |-> None,
     entry |-> NoEntry]

(***************************************************************************)
(* Bounds of the model.                                                    *)
(***************************************************************************)
\* a run of one thread: its load_geojson calls, the rewrites of files and the
\* I/O failures that happen during it
SeqCalls == 3
SeqRewrites == 2
SeqFaults == 10
\* a run of concurrent threads: the same three budgets
ConcCalls == 3
ConcRewrites == 1
ConcFaults == 1

(***************************************************************************)
(* Program constants.                                                      *)
(***************************************************************************)
\* _GEOJSON_MAX_IO_RETRIES
MAX_IO_RETRIES == 5
\* backoff = 0.3, in units of 1/10000 s
InitialBackoff == 3000
\* the cap 2.5 of min(backoff * 1.7, 2.5), in units of 1/10000 s
BackoffCap == 25000

Threads == {"t1", "t2"}

\* "pub" is DATA_DIR/<rel>, "alt" is _ALT_DATA_DIR/<rel> for the same <rel>
Paths == {"pub", "alt"}

\* os.path.relpath(abs_path, DATA_DIR) does not start with '..'
UnderDataDir(p) == p = "pub"

\* os.path.join(_ALT_DATA_DIR, rel)
AltPath(p) == "alt"

\* the exceptions open(), json.load() and os.path.getmtime() raise here are
\* "ETIMEDOUT", "ENOENT", "EIO" (OSError with that errno) and "JSONDecodeError"
\* isinstance(err, (TimeoutError, OSError)); TimeoutError is an OSError
IsOSError(err) == err \in {"ETIMEDOUT", "ENOENT", "EIO"}

\* err.errno in (errno.ETIMEDOUT,)
IsTimeout(err) == err = "ETIMEDOUT"

VARIABLES
    exists,     \* exists[p]: the file p is on disk
    fmtime,     \* fmtime[p]: the file's modification time; its content is version fmtime[p]
    cache,      \* _GEOJSON_CACHE: path -> NoEntry or [mtime, data]
    lock,       \* _GEOJSON_CACHE_LOCK: its holder, or None
    th,         \* th[t]: the locals and position of thread t's load_geojson call
    left,       \* what the run may still do: [calls, rewrites, faults]
    rq          \* the precinct_overlay request being handled

vars == <<exists, fmtime, cache, lock, th, left, rq>>

\* what open()+json.load() yields for the file p: its current version
Content(p) == [src |-> p, ver |-> fmtime[p]]

NoCounts == [p \in Paths |-> 0]

IdleThread(pc0) ==
    [pc |-> pc0, req |-> None, candidates |-> <<>>, ci |-> 0,
     mtime |-> 0, cached |-> NoEntry, attempt |-> 0, backoff |-> 0,
     last_err |-> None, data |-> NoData, result |-> NoResult,
     nreads |-> NoCounts, nsleeps |-> NoCounts, tried |-> {}, aborted |-> {},
     warm |-> FALSE]

\* Fields of th[t] that are not locals of the code but a record of the call:
\*   nreads[p], nsleeps[p]  read attempts and backoff sleeps made on path p
\*   tried                  the candidates _load_from_single_path was entered for
\*   aborted                the paths whose retry loop a non-timeout error ended
\*   warm                   the cache held an entry for the path when the call began
\*   result                 how load_geojson ended

\* the candidate path _load_from_single_path is working on
Cand(r) == r.candidates[r.ci]

\* candidates = [abs_path] (+ the build/data mirror when it exists)
Candidates(p) ==
    IF UnderDataDir(p) /\ exists[AltPath(p)] THEN <<p, AltPath(p)>> ELSE <<p>>

\* load_geojson is left: the locals of _load_from_single_path are gone
Finished(r, res) ==
    [r EXCEPT !.pc = "done", !.result = res, !.mtime = 0, !.cached = NoEntry,
              !.attempt = 0, !.backoff = 0, !.last_err = None, !.data = NoData]

\* a return of load_geojson (result.mtime: the mtime the call observed;
\* result.entry: the cache entry of the requested path at the moment of the return)
Return(r, kind, d, c) ==
    Finished(r, [kind |-> kind, path |-> Cand(r), mtime |-> r.mtime, data |-> d,
                 err |-> None, entry |-> c[r.req]])

\* load_geojson's except/continue and its final raise last_err
CandidateFailed(r, err, c) ==
    IF r.ci < Len(r.candidates)
    THEN [r EXCEPT !.ci = @ + 1, !.pc = "stat", !.mtime = 0, !.cached = NoEntry,
                   !.attempt = 0, !.backoff = 0, !.last_err = None]
    ELSE Finished(r, [kind |-> "raise", path |-> Cand(r), mtime |-> r.mtime,
                      data |-> NoData, err |-> err, entry |-> c[r.req]])

\* after the retry loop: if cached: return cached['data'], else raise last_err
AfterLoop(r, err, c) ==
    IF r.cached # NoEntry
    THEN Return(r, "stale", r.cached.data, c)
    ELSE CandidateFailed(r, err, c)

\* mutants of ShouldRetry: the attempt limit dropped; the errno test dropped
ShouldRetryUncapped(err, attempt) == IsOSError(err) /\ IsTimeout(err)

ShouldRetryAnyOSError(err, attempt) == IsOSError(err) /\ attempt # MAX_IO_RETRIES

\* the except clauses of the retry loop: retry (sleep) or break
ShouldRetry(err, attempt) ==
    /\ IsOSError(err)
    /\ ~(IsOSError(err) /\ ~IsTimeout(err))
    /\ attempt # MAX_IO_RETRIES

\* mutant of CacheHit: the mtime comparison dropped
CacheHitAnyMtime(cached, mtime) == cached # NoEntry

\* cached and cached['mtime'] == mtime
CacheHit(cached, mtime) == cached # NoEntry /\ cached.mtime = mtime

\* mutant of NewEntry: the observed mtime is not recorded
NewEntryNoMtime(mtime, data) == [mtime |-> 0, data |-> data]

\* mutant of NewEntry: the entry carries the file's mtime at the time of the
\* insert, not the mtime observed before the read
NewEntryMtimeAtInsert(mtime, data) == [mtime |-> fmtime[data.src], data |-> data]

\* _GEOJSON_CACHE[abs_path] = {'mtime': mtime, 'data': data}
NewEntry(mtime, data) == [mtime |-> mtime, data |-> data]

\* backoff = min(backoff * 1.7, 2.5)
NextBackoff(b) ==
    LET x == (b * 17) \div 10 IN IF x < BackoffCap THEN x ELSE BackoffCap

\* mutant of LookupRelease: the lock is kept after a miss, across the read
LookupKeep(t) == t

\* leaving the "with _GEOJSON_CACHE_LOCK:" block of the lookup
LookupRelease(t) == None

\* leaving the "with _GEOJSON_CACHE_LOCK:" block of the insert
InsertRelease(t) == None

(***************************************************************************)
(* The store's operations.                                                 *)
(***************************************************************************)
\* load_geojson(path): abs_path, candidates
Call(t, p) ==
    /\ th[t].pc \in {"idle", "done"}
    /\ left.calls > 0
    /\ left' = [left EXCEPT !.calls = @ - 1]
    /\ th' = [th EXCEPT ![t] =
                [IdleThread("stat") EXCEPT !.req = p, !.candidates = Candidates(p),
                                           !.ci = 1, !.warm = (cache[p] # NoEntry)]]
    /\ UNCHANGED <<exists, fmtime, cache, lock, rq>>

\* mtime = os.path.getmtime(abs_path); an OSError leaves _load_from_single_path
Stat(t) ==
    LET r == th[t]
        p == Cand(r)
        r1 == [r EXCEPT !.tried = @ \cup {p}]
    IN /\ r.pc = "stat"
       /\ \/ /\ exists[p]
             /\ th' = [th EXCEPT ![t] = [r1 EXCEPT !.mtime = fmtime[p], !.pc = "acq_lookup"]]
             /\ UNCHANGED left
          \/ /\ ~exists[p]
             /\ th' = [th EXCEPT ![t] = CandidateFailed(r1, "ENOENT", cache)]
             /\ UNCHANGED left
          \/ /\ exists[p] /\ left.faults > 0
             /\ left' = [left EXCEPT !.faults = @ - 1]
             /\ th' = [th EXCEPT ![t] = CandidateFailed(r1, "ETIMEDOUT", cache)]
       /\ UNCHANGED <<exists, fmtime, cache, lock, rq>>

\* entering "with _GEOJSON_CACHE_LOCK:" before the lookup
AcquireLookup(t) ==
    /\ th[t].pc = "acq_lookup"
    /\ lock = None
    /\ lock' = t
    /\ th' = [th EXCEPT ![t].pc = "lookup"]
    /\ UNCHANGED <<exists, fmtime, cache, left, rq>>

\* cached = _GEOJSON_CACHE.get(abs_path); a hit returns cached['data']
Lookup(t) ==
    LET r == th[t]
        c == cache[Cand(r)]
        r1 == [r EXCEPT !.cached = c]
    IN /\ r.pc = "lookup"
       /\ lock' = LookupRelease(t)
       /\ th' = [th EXCEPT ![t] =
                   IF CacheHit(c, r.mtime)
                   THEN Return(r1, "hit", c.data, cache)
                   ELSE [r1 EXCEPT !.pc = "read", !.attempt = 1,
                                   !.backoff = InitialBackoff, !.last_err = None]]
       /\ UNCHANGED <<exists, fmtime, cache, left, rq>>

\* one attempt of the retry loop failing with err
ReadFails(r, err) ==
    LET r1 == [r EXCEPT !.last_err = err, !.nreads[Cand(r)] = @ + 1,
                        !.aborted = IF IsTimeout(err) THEN @ ELSE @ \cup {Cand(r)}]
    IN IF ShouldRetry(err, r.attempt)
       THEN [r1 EXCEPT !.pc = "sleep"]
       ELSE AfterLoop(r1, err, cache)

\* with open(abs_path) as f: data = json.load(f)
Read(t) ==
    LET r == th[t]
        p == Cand(r)
    IN /\ r.pc = "read"
       /\ \/ /\ exists[p]
             /\ th' = [th EXCEPT ![t] =
                         [r EXCEPT !.data = Content(p), !.pc = "acq_insert",
                                   !.nreads[p] = @ + 1]]
             /\ UNCHANGED left
          \/ /\ ~exists[p]
             /\ th' = [th EXCEPT ![t] = ReadFails(r, "ENOENT")]
             /\ UNCHANGED left
          \/ /\ exists[p] /\ left.faults > 0
             /\ left' = [left EXCEPT !.faults = @ - 1]
             /\ \E err \in {"ETIMEDOUT", "EIO", "JSONDecodeError"} :
                    th' = [th EXCEPT ![t] = ReadFails(r, err)]
       /\ UNCHANGED <<exists, fmtime, cache, lock, rq>>

\* time.sleep(backoff); backoff = min(backoff * 1.7, 2.5); next attempt
Sleep(t) ==
    LET r == th[t]
    IN /\ r.pc = "sleep"
       /\ th' = [th EXCEPT ![t] =
                   [r EXCEPT !.pc = "read", !.attempt = @ + 1,
                             !.backoff = NextBackoff(@),
                             !.nsleeps[Cand(r)] = @ + 1]]
       /\ UNCHANGED <<exists, fmtime, cache, lock, left, rq>>

\* entering "with _GEOJSON_CACHE_LOCK:" before the insert
AcquireInsert(t) ==
    /\ th[t].pc = "acq_insert"
    /\ lock = None
    /\ lock' = t
    /\ th' = [th EXCEPT ![t].pc = "insert"]
    /\ UNCHANGED <<exists, fmtime, cache, left, rq>>

\* _GEOJSON_CACHE[abs_path] = {...}; return data
Insert(t) ==
    LET r == th[t]
    IN /\ r.pc = "insert"
       /\ cache' = [cache EXCEPT ![Cand(r)] = NewEntry(r.mtime, r.data)]
       /\ lock' = InsertRelease(t)
       /\ th' = [th EXCEPT ![t] = Return(r, "read", r.data, cache')]
       /\ UNCHANGED <<exists, fmtime, left, rq>>

\* the environment rewrites the file p: new content, a later mtime
Rewrite(p) ==
    /\ exists[p]
    /\ left.rewrites > 0
    /\ left' = [left EXCEPT !.rewrites = @ - 1]
    /\ fmtime' = [fmtime EXCEPT ![p] = @ + 1]
    /\ UNCHANGED <<exists, cache, lock, th, rq>>

StoreInit(active, budget) ==
    /\ exists \in [Paths -> BOOLEAN]
    /\ fmtime = [p \in Paths |-> 1]
    /\ cache = [p \in Paths |-> NoEntry]
    /\ lock = None
    /\ th = [t \in Threads |-> IdleThread(IF t \in active THEN "idle" ELSE "off")]
    /\ left = budget

Init ==
    /\ StoreInit({"t1"}, [calls |-> SeqCalls, rewrites |-> SeqRewrites, faults |-> SeqFaults])
    /\ rq = "idle"

InitConc ==
    /\ StoreInit(Threads, [calls |-> ConcCalls, rewrites |-> ConcRewrites, faults |-> ConcFaults])
    /\ rq = "idle"

Next ==
    \/ \E t \in Threads, p \in Paths : Call(t, p)
    \/ \E t \in Threads : Stat(t)
    \/ \E t \in Threads : AcquireLookup(t)
    \/ \E t \in Threads : Lookup(t)
    \/ \E t \in Threads : Read(t)
    \/ \E t \in Threads : Sleep(t)
    \/ \E t \in Threads : AcquireInsert(t)
    \/ \E t \in Threads : Insert(t)
    \/ \E p \in Paths : Rewrite(p)

\* one thread calling load_geojson again and again
Spec == Init /\ [][Next]_vars

\* concurrent load_geojson calls
SpecConc == InitConc /\ [][Next]_vars

(***************************************************************************)
(* Texts.  A Python str is a sequence of one-character strings.            *)
(***************************************************************************)
W_spec == <<"s", "p", "e", "c">>
W_industry == <<"i", "n", "d", "u", "s", "t", "r", "y">>
W_social == <<"s", "o", "c", "i", "a", "l">>
W_infra == <<"i", "n", "f", "r", "a">>
W_accessibility == <<"a", "c", "c", "e", "s", "s", "i", "b", "i", "l", "i", "t", "y">>
W_housing == <<"h", "o", "u", "s", "i", "n", "g">>
W_stress == <<"s", "t", "r", "e", "s", "s">>
W_percent == <<"p", "e", "r", "c", "e", "n", "t">>
W_land == <<"l", "a", "n", "d">>
W_mix == <<"m", "i", "x">>
W_lum == <<"l", "u", "m">>
W_age == <<"a", "g", "e">>
W_diversity == <<"d", "i", "v", "e", "r", "s", "i", "t", "y">>
W_resident == <<"r", "e", "s", "i", "d", "e", "n", "t">>
W_income == <<"i", "n", "c", "o", "m", "e">>
W_walk == <<"w", "a", "l", "k">>
W_sa1 == <<"s", "a", "1">>
W_dwell == <<"d", "w", "e", "l", "l">>
W_mesh == <<"m", "e", "s", "h">>
W_resdwel == <<"r", "e", "s", "d", "w", "e", "l">>
W_jobs == <<"j", "o", "b", "s">>

\* words that hold a keyword inside another word, and an unrelated one
W_percentage == <<"p", "e", "r", "c", "e", "n", "t", "a", "g", "e">>
W_column == <<"c", "o", "l", "u", "m", "n">>
W_traffic == <<"t", "r", "a", "f", "f", "i", "c">>

\* 'Housing Stress (%)', 'industry specialisation', 'Land Use MIX', '  Walkability '
T_HousingStressPct == <<"H", "o", "u", "s", "i", "n", "g", " ", "S", "t", "r", "e", "s", "s", " ", "(", "%", ")">>
T_IndustrySpecialisation == <<"i", "n", "d", "u", "s", "t", "r", "y", " ", "s", "p", "e", "c", "i", "a", "l", "i", "s", "a", "t", "i", "o", "n">>
T_LandUseMix == <<"L", "a", "n", "d", " ", "U", "s", "e", " ", "M", "I", "X">>
T_Walkability == <<" ", " ", "W", "a", "l", "k", "a", "b", "i", "l", "i", "t", "y", " ">>
T_Blank == <<" ", " ", " ">>

\* str.lower() on one character
LowerChar(c) ==
    CASE c = "A" -> "a"
      [] c = "B" -> "b"
      [] c = "C" -> "c"
      [] c = "D" -> "d"
      [] c = "E" -> "e"
      [] c = "F" -> "f"
      [] c = "G" -> "g"
      [] c = "H" -> "h"
      [] c = "I" -> "i"
      [] c = "J" -> "j"
      [] c = "K" -> "k"
      [] c = "L" -> "l"
      [] c = "M" -> "m"
      [] c = "N" -> "n"
      [] c = "O" -> "o"
      [] c = "P" -> "p"
      [] c = "Q" -> "q"
      [] c = "R" -> "r"
      [] c = "S" -> "s"
      [] c = "T" -> "t"
      [] c = "U" -> "u"
      [] c = "V" -> "v"
      [] c = "W" -> "w"
      [] c = "X" -> "x"
      [] c = "Y" -> "y"
      [] c = "Z" -> "z"
      [] OTHER -> c

\* bounds of the texts: words joined by single spaces in one indicator text
MaxWords == 2

\* str.lower()
Lower(s) == [i \in 1..Len(s) |-> LowerChar(s[i])]

IsSpace(c) == c \in {" ", "\t", "\n"}

RECURSIVE LStrip(_)
LStrip(s) == IF s # <<>> /\ IsSpace(Head(s)) THEN LStrip(Tail(s)) ELSE s

RECURSIVE RStrip(_)
RStrip(s) ==
    IF s # <<>> /\ IsSpace(s[Len(s)]) THEN RStrip(SubSeq(s, 1, Len(s) - 1)) ELSE s

\* str.strip()
Strip(s) == RStrip(LStrip(s))

\* kw in s
Contains(kw, s) ==
    \E i \in 0..(Len(s) - Len(kw)) : SubSeq(s, i + 1, i + Len(kw)) = kw

\* mutant of ResolveIndicator: the mesh-block residents rule tested before
\* the SA1 residents rule and the dwellings rule
ResolveResidentsFirst(indicator) ==
    LET low == Lower(indicator)
    IN IF indicator = <<>> THEN "jobs"
       ELSE IF Contains(W_spec, low) \/ Contains(W_industry, low) THEN "spec"
       ELSE IF (Contains(W_social, low) /\ Contains(W_infra, low))
                 \/ (Contains(W_accessibility, low) /\ Contains(W_social, low))
            THEN "socinfra"
       ELSE IF (Contains(W_housing, low) /\ Contains(W_stress, low))
                 \/ (Contains(W_housing, low) /\ Contains(W_percent, low))
            THEN "housing_stress"
       ELSE IF (Contains(W_land, low) /\ Contains(W_mix, low)) \/ Contains(W_lum, low)
            THEN "lum"
       ELSE IF Contains(W_age, low)
                 /\ (Contains(W_diversity, low) \/ Contains(W_resident, low))
            THEN "age_mix"
       ELSE IF Contains(W_income, low)
                 /\ (Contains(W_diversity, low) \/ Contains(W_resident, low))
            THEN "income_mix"
       ELSE IF Contains(W_walk, low) THEN "walkability"
       ELSE IF Contains(W_resident, low) \/ Contains(W_mesh, low)
                 \/ Contains(W_resdwel, low)
            THEN "residents"
       ELSE IF Contains(W_resident, low) /\ Contains(W_sa1, low) THEN "residents_sa1"
       ELSE IF Contains(W_dwell, low) THEN "dwellings"
       ELSE "jobs"

\* the if/elif chain that sets ind_key from the stripped indicator text
ResolveIndicator(indicator) ==
    LET low == Lower(indicator)
    IN IF indicator = <<>> THEN "jobs"
       ELSE IF Contains(W_spec, low) \/ Contains(W_industry, low) THEN "spec"
       ELSE IF (Contains(W_social, low) /\ Contains(W_infra, low))
                 \/ (Contains(W_accessibility, low) /\ Contains(W_social, low))
            THEN "socinfra"
       ELSE IF (Contains(W_housing, low) /\ Contains(W_stress, low))
                 \/ (Contains(W_housing, low) /\ Contains(W_percent, low))
            THEN "housing_stress"
       ELSE IF (Contains(W_land, low) /\ Contains(W_mix, low)) \/ Contains(W_lum, low)
            THEN "lum"
       ELSE IF Contains(W_age, low)
                 /\ (Contains(W_diversity, low) \/ Contains(W_resident, low))
            THEN "age_mix"
       ELSE IF Contains(W_income, low)
                 /\ (Contains(W_diversity, low) \/ Contains(W_resident, low))
            THEN "income_mix"
       ELSE IF Contains(W_walk, low) THEN "walkability"
       ELSE IF Contains(W_resident, low) /\ Contains(W_sa1, low) THEN "residents_sa1"
       ELSE IF Contains(W_dwell, low) THEN "dwellings"
       ELSE IF Contains(W_resident, low) \/ Contains(W_mesh, low)
                 \/ Contains(W_resdwel, low)
            THEN "residents"
       ELSE "jobs"

\* ind_label, set beside ind_key
IndLabel(key) ==
    CASE key = "spec" -> "Industry specialisation"
      [] key = "socinfra" -> "Accessibility of Social Infrastructure"
      [] key = "housing_stress" -> "Housing stress"
      [] key = "lum" -> "Land use mix"
      [] key = "age_mix" -> "Diversity of residents' age"
      [] key = "income_mix" -> "Diversity of residents' income"
      [] key = "walkability" -> "Walkability"
      [] key = "residents_sa1" -> "number of residents_SA1"
      [] key = "dwellings" -> "Number of dwellings"
      [] key = "residents" -> "Number of residents"
      [] OTHER -> "Number of jobs"

\* the words indicator texts are made of
Vocab ==
    {W_spec, W_industry, W_social, W_infra, W_accessibility, W_housing, W_stress,
     W_percent, W_land, W_mix, W_lum, W_age, W_diversity, W_resident, W_income,
     W_walk, W_sa1, W_dwell, W_mesh, W_resdwel, W_jobs,
     W_percentage, W_column, W_traffic}

RECURSIVE Phrases(_)
\* the texts of 1..n words joined by single spaces
Phrases(n) ==
    IF n <= 1 THEN Vocab
    ELSE LET shorter == Phrases(n - 1)
         IN shorter \cup {p \o <<" ">> \o w : p \in shorter, w \in Vocab}

\* the indicator texts of the resolution check
Texts ==
    Phrases(MaxWords)
        \cup {<<>>, T_Blank, T_HousingStressPct, T_IndustrySpecialisation,
              T_LandUseMix, T_Walkability}

(***************************************************************************)
(* The dataset catalog of precinct_overlay.                                *)
(***************************************************************************)
\* {2011: a, 2016: b, 2021: c}.get(year)
Get3(year, a, b, c) ==
    CASE year = 2011 -> a [] year = 2016 -> b [] year = 2021 -> c [] OTHER -> None

\* {2018: a, 2021: b}.get(year)
Get1821(year, a, b) == CASE year = 2018 -> a [] year = 2021 -> b [] OTHER -> None

\* {2016: a, 2021: b}.get(year)
Get1621(year, a, b) == CASE year = 2016 -> a [] year = 2021 -> b [] OTHER -> None

\* if year not in (2018, 2021): year = 2018
Snap2018(year) == IF year \notin {2018, 2021} THEN 2018 ELSE year

\* "Select dataset and properties based on indicator": year, data_file, val_prop
SelectDataset(ind_key, year) ==
    CASE ind_key = "spec" ->
           [year |-> year,
            data_file |-> Get3(year, "Inudstry_Specialisation_DZN_11.geojson",
                                     "Inudstry_Specialisation_DZN_16.geojson",
                                     "Inudstry_Specialisation_DZN_21.geojson"),
            val_prop |-> Get3(year, "Special_11", "Special_16", "Special_21")]
      [] ind_key = "socinfra" ->
           [year |-> Snap2018(year),
            data_file |-> "Social_Infrastructure_Index_SA1_18_21.geojson",
            val_prop |-> Get1821(Snap2018(year), "SoInfra_18", "SoInfra_21")]
      [] ind_key = "housing_stress" ->
           [year |-> Snap2018(year),
            data_file |-> "Housing_Stress_SA1_18_21.geojson",
            val_prop |-> Get1821(Snap2018(year), "HouStre_18", "HouStre_21")]
      [] ind_key = "lum" ->
           [year |-> year,
            data_file |-> "Land_Use_Mix__SA1_11_16_21.geojson",
            val_prop |-> Get3(year, "LUM_11", "LUM_16", "LUM_21")]
      [] ind_key = "residents_sa1" ->
           [year |-> year,
            data_file |-> "Number_of_Residents_and_Dwellings_SA1_11_16_21.geojson",
            val_prop |-> Get3(year, "Person_11", "Person_16", "Person_21")]
      [] ind_key \in {"residents", "dwellings", "resdwel"} ->
           [year |-> year,
            data_file |-> Get3(year, "Number_of_Residents_and_Dwellings_MB_11.geojson",
                                     "Number_of_Residents_and_Dwellings_MB_16.geojson",
                                     "Number_of_Residents_and_Dwellings_MB_21.geojson"),
            val_prop |-> IF ind_key = "dwellings"
                         THEN Get3(year, "Dwell_11", "Dwell_16", "Dwell_21")
                         ELSE Get3(year, "Person_11", "Person_16", "Person_21")]
      [] ind_key = "age_mix" ->
           [year |-> year,
            data_file |-> "Age_Mix__SA1_16_21.geojson",
            val_prop |-> Get1621(year, "Age_Mix_16", "Age_Mix_21")]
      [] ind_key = "income_mix" ->
           [year |-> year,
            data_file |-> "Income_Mix_SA1_16_21.geojson",
            val_prop |-> Get1621(year, "Inc_Mix_16", "Inc_Mix_21")]
      [] ind_key = "walkability" ->
           [year |-> Snap2018(year),
            data_file |-> "Walkability_SA1_16_21.geojson",
            val_prop |-> Get1821(Snap2018(year), "Walkabi_18", "Walkabi_21")]
      [] OTHER ->
           [year |-> year,
            data_file |-> Get3(year, "Number_of_Jobs_DZN_11.geojson",
                                     "Number_of_Jobs_DZN_16.geojson",
                                     "Number_of_Jobs_DZN_21.geojson"),
            val_prop |-> Get3(year, "TotJob_11", "TotJob_16", "TotJob_21")]

\* {2011: a, 2016: b, 2021: c}[year]
Index3(year, a, b, c) ==
    CASE year = 2011 -> a [] year = 2016 -> b [] year = 2021 -> c [] OTHER -> "KeyError"

\* "Prepare outputs and spatial unit": code_prop
CodeProp(ind_key, year) ==
    CASE ind_key \in {"lum", "socinfra", "housing_stress", "age_mix", "income_mix",
                      "walkability", "residents_sa1"} -> "SA1_CODE_2"
      [] ind_key \in {"residents", "dwellings", "resdwel"} ->
           Index3(year, "MB_CODE11", "MB_CODE16", "MB_CODE21")
      [] OTHER -> Index3(year, "DZN_CODE11", "DZN_CODE16", "DZN_CODE21")

\* "Prepare outputs and spatial unit": spatial_unit
SpatialUnit(ind_key) ==
    CASE ind_key \in {"lum", "socinfra", "housing_stress", "age_mix", "income_mix",
                      "walkability", "residents_sa1"} -> "SA1"
      [] ind_key \in {"residents", "dwellings", "resdwel"} -> "MB"
      [] OTHER -> "DZN"

(***************************************************************************)
(* Geometry.  A polygon is the set of unit cells it covers: its area is    *)
(* the number of cells, union and intersection are those of sets.          *)
(***************************************************************************)
\* cells of the plane
NCells == 2
\* features of a dataset in the request check / in the overlay check
ReqFeatures == 1
OvFeatures == 3

Cells == 1..NCells

\* shape(g).area
Area(cells) == Cardinality(cells)

\* A feature of the indicator dataset, by what the loop does with it:
\*   "notobj"     not a JSON object: f.get raises before the try
\*   "nogeom"     geometry missing or null: skipped by "if not g"
\*   "badgeom"    reprojection or shape() raises inside the try
\*   "nullprops"  a polygon whose properties are null
\*   "poly"       a polygon with properties
DataFeatures ==
    {[kind |-> k, cells |-> {}] : k \in {"notobj", "nogeom", "badgeom"}}
        \cup {[kind |-> "nullprops", cells |-> Cells]}
        \cup {[kind |-> "poly", cells |-> c] : c \in SUBSET Cells}

\* the indicator datasets of at most n features
DataFCs(n) == UNION {[1..k -> DataFeatures] : k \in 0..n}

PFeat(name, kind, cells) == [name |-> name, kind |-> kind, cells |-> cells]

\* the precinct-boundary layers
PrecinctFCs ==
    {<<>>,
     <<PFeat("Fishermans Bend", "poly", Cells)>>,
     <<PFeat("Fishermans Bend", "poly", {1})>>,
     <<PFeat("Fishermans Bend", "poly", {1}), PFeat("Fishermans Bend", "poly", {2})>>,
     <<PFeat("Fishermans Bend", "poly", {})>>,
     <<PFeat("Fishermans Bend", "badgeom", {}), PFeat("Fishermans Bend", "poly", {1})>>,
     <<PFeat("Fishermans Bend", "nogeom", {})>>,
     <<PFeat("Lorimer", "poly", {1}), PFeat("Fishermans Bend", "poly", {2})>>}

(***************************************************************************)
(* The precinct_overlay handler.                                           *)
(***************************************************************************)
NoResponse ==
    [status |-> 0, error |-> None, precinct |-> None, year |-> 0, precinctArea |-> 0,
     spatialUnit |-> None, intersectCount |-> 0, dznIntersectCount |-> 0,
     intersections |-> <<>>]

\* jsonify({'error': msg}), status
ErrorResponse(status, msg) == [NoResponse EXCEPT !.status = status, !.error = msg]

\* the handler before it has read its request; body: the JSON body, with
\* precinctName None when absent, year [kind: "absent" | "int" | "bad", val]
NewRequest(body, maxFeat) ==
    [pc |-> "parse", body |-> body, maxFeat |-> maxFeat,
     precinct_name |-> None, year |-> 0, indicator |-> <<>>,
     ind_key |-> None, ind_label |-> None, data_file |-> None, val_prop |-> None,
     precincts_fc |-> <<>>, data_fc |-> <<>>, loads |-> 0, response |-> NoResponse]

NoRequest ==
    NewRequest([precinctName |-> None, year |-> [kind |-> "absent", val |-> 0],
                indicator |-> <<>>], 0)

Respond(r, resp) == [r EXCEPT !.pc = "responded", !.response = resp]

\* a / b as the pair of its terms
Frac(a, b) == [num |-> a, den |-> b]

\* x >= y for two fractions
FracGeq(x, y) == x.num * y.den >= y.num * x.den

RECURSIVE InsertDesc(_, _)
\* x put behind every record whose areaPct is at least its own
InsertDesc(x, s) ==
    IF s = <<>> THEN <<x>>
    ELSE IF FracGeq(Head(s).areaPct, x.areaPct)
         THEN <<Head(s)>> \o InsertDesc(x, Tail(s))
         ELSE <<x>> \o s

RECURSIVE InsertAsc(_, _)
InsertAsc(x, s) ==
    IF s = <<>> THEN <<x>>
    ELSE IF FracGeq(x.areaPct, Head(s).areaPct)
         THEN <<Head(s)>> \o InsertAsc(x, Tail(s))
         ELSE <<x>> \o s

RECURSIVE SortAsc(_)
SortAsc(s) ==
    IF s = <<>> THEN <<>> ELSE InsertAsc(s[Len(s)], SortAsc(SubSeq(s, 1, Len(s) - 1)))

Reverse(s) == [i \in 1..Len(s) |-> s[Len(s) + 1 - i]]

\* mutant of SortByAreaPct: sorted ascending, then reversed
SortAscReversed(s) == Reverse(SortAsc(s))

RECURSIVE SortByAreaPct(_)
\* intersections.sort(key=lambda i: i['areaPct'], reverse=True)
SortByAreaPct(s) ==
    IF s = <<>> THEN <<>>
    ELSE InsertDesc(s[Len(s)], SortByAreaPct(SubSeq(s, 1, Len(s) - 1)))

\* val = float(f.properties.get(val_prop, 0)): feature i carries 10 * i under
\* every value property of its dataset
Value(val_prop, i) == IF val_prop = None THEN 0 ELSE 10 * i

\* the body of the feature loop for feature i: the record appended, or <<>>
\* when the feature is skipped
FeatureRecords(f, i, p_union, val_prop) ==
    LET inter == p_union \cap f.cells
        a == Area(inter)
        p_area == Area(p_union)
        feat_area == Area(f.cells)
    IN IF f.kind \in {"nogeom", "badgeom"} THEN <<>>
       ELSE IF f.cells = {} \/ Area(f.cells) <= 0 THEN <<>>
       ELSE IF inter = {} THEN <<>>
       ELSE IF a <= 0 THEN <<>>
       ELSE IF f.kind = "nullprops" THEN <<>>
       ELSE <<[code |-> i, value |-> Value(val_prop, i), area |-> a,
               areaPct |-> Frac(a, p_area), featureArea |-> feat_area,
               areaPctPrecinct |-> Frac(a, p_area),
               areaPctFeature |-> Frac(a, feat_area)]>>

RECURSIVE Intersections(_, _, _, _)
\* the records of the features 1..n of feats, in dataset order
Intersections(feats, n, p_union, val_prop) ==
    IF n = 0 THEN <<>>
    ELSE Intersections(feats, n - 1, p_union, val_prop)
           \o FeatureRecords(feats[n], n, p_union, val_prop)

\* from the precinct match to the response
ComputeOverlay(r) ==
    LET p_feats == SelectSeq(r.precincts_fc, LAMBDA f : f.name = r.precinct_name)
        p_geoms == {p_feats[i].cells : i \in {j \in 1..Len(p_feats) :
                        p_feats[j].kind = "poly" /\ p_feats[j].cells # {}}}
        p_union == UNION p_geoms
        code_prop == CodeProp(r.ind_key, r.year)
        feats == r.data_fc
        sorted == SortByAreaPct(Intersections(feats, Len(feats), p_union, r.val_prop))
    IN IF p_feats = <<>> THEN ErrorResponse(404, "Precinct not found")
       ELSE IF \E i \in 1..Len(p_feats) : p_feats[i].kind = "nogeom"
            THEN ErrorResponse(500, "AttributeError")
       ELSE IF p_geoms = {}
            THEN ErrorResponse(500, "Precinct geometry invalid after reprojection")
       ELSE IF code_prop = "KeyError" THEN ErrorResponse(500, "KeyError")
       ELSE IF \E i \in 1..Len(feats) : feats[i].kind = "notobj"
            THEN ErrorResponse(500, "AttributeError")
       ELSE [status |-> 200, error |-> None, precinct |-> r.precinct_name,
             year |-> r.year, precinctArea |-> Area(p_union),
             spatialUnit |-> SpatialUnit(r.ind_key),
             intersectCount |-> Len(sorted), dznIntersectCount |-> Len(sorted),
             intersections |-> sorted]

\* data = request.get_json(); precinct_name, year, indicator; the name check
Parse ==
    /\ rq.pc = "parse"
    /\ rq' = IF rq.body.year.kind = "bad"
             THEN Respond(rq, ErrorResponse(500, "ValueError"))
             ELSE LET r1 == [rq EXCEPT
                               !.precinct_name = rq.body.precinctName,
                               !.year = IF rq.body.year.kind = "absent"
                                        THEN 2011 ELSE rq.body.year.val,
                               !.indicator = Strip(rq.body.indicator)]
                  IN IF r1.precinct_name \in {None, ""}
                     THEN Respond(r1, ErrorResponse(400, "Missing precinctName"))
                     ELSE [r1 EXCEPT !.pc = "resolve"]
    /\ UNCHANGED <<exists, fmtime, cache, lock, th, left>>

\* "Normalize indicator": ind_key, ind_label
Resolve ==
    /\ rq.pc = "resolve"
    /\ rq' = [rq EXCEPT !.pc = "select",
                        !.ind_key = ResolveIndicator(rq.indicator),
                        !.ind_label = IndLabel(ResolveIndicator(rq.indicator))]
    /\ UNCHANGED <<exists, fmtime, cache, lock, th, left>>

\* "Select dataset and properties"; if not data_file: 400
Select ==
    /\ rq.pc = "select"
    /\ LET d == SelectDataset(rq.ind_key, rq.year)
           r1 == [rq EXCEPT !.year = d.year, !.data_file = d.data_file,
                            !.val_prop = d.val_prop]
       IN rq' = IF d.data_file = None
                THEN Respond(r1, ErrorResponse(400, "Unsupported year"))
                ELSE [r1 EXCEPT !.pc = "load_precincts"]
    /\ UNCHANGED <<exists, fmtime, cache, lock, th, left>>

\* precincts_fc = load_geojson(precincts_path): the layer, or the error it raises
LoadPrecincts ==
    /\ rq.pc = "load_precincts"
    /\ \/ \E fc \in PrecinctFCs :
             rq' = [rq EXCEPT !.pc = "load_data", !.precincts_fc = fc, !.loads = @ + 1]
       \/ rq' = Respond([rq EXCEPT !.loads = @ + 1], ErrorResponse(500, "OSError"))
    /\ UNCHANGED <<exists, fmtime, cache, lock, th, left>>

\* data_fc = load_geojson(data_path): the dataset, or the error it raises
LoadData ==
    /\ rq.pc = "load_data"
    /\ \/ \E fc \in DataFCs(rq.maxFeat) :
             rq' = [rq EXCEPT !.pc = "overlay", !.data_fc = fc, !.loads = @ + 1]
       \/ rq' = Respond([rq EXCEPT !.loads = @ + 1], ErrorResponse(500, "OSError"))
    /\ UNCHANGED <<exists, fmtime, cache, lock, th, left>>

\* the precinct match, the union, the feature loop, the sort and the result
Overlay ==
    /\ rq.pc = "overlay"
    /\ rq' = Respond(rq, ComputeOverlay(rq))
    /\ UNCHANGED <<exists, fmtime, cache, lock, th, left>>

\* the store at rest, for the checks of the handler
StoreAtRest ==
    /\ exists = [p \in Paths |-> TRUE]
    /\ fmtime = [p \in Paths |-> 1]
    /\ cache = [p \in Paths |-> NoEntry]
    /\ lock = None
    /\ th = [t \in Threads |-> IdleThread("off")]
    /\ left = [calls |-> 0, rewrites |-> 0, faults |-> 0]

YearFields ==
    {[kind |-> "absent", val |-> 0], [kind |-> "bad", val |-> 0]}
        \cup {[kind |-> "int", val |-> y] : y \in {1999, 2011, 2016, 2018, 2021}}

\* one indicator text for every key of the catalog, and no text
KeyTexts ==
    {<<>>, W_jobs, T_IndustrySpecialisation, W_social \o <<" ">> \o W_infra,
     T_HousingStressPct, T_LandUseMix, W_age \o <<" ">> \o W_diversity,
     W_income \o <<" ">> \o W_diversity, T_Walkability,
     W_resident \o <<" ">> \o W_sa1, W_dwell, W_resident}

\* requests of every shape, small datasets
InitReq ==
    /\ StoreAtRest
    /\ \E n \in {None, "", "Fishermans Bend", "Docklands"}, y \in YearFields,
          t \in KeyTexts :
          rq = NewRequest([precinctName |-> n, year |-> y, indicator |-> t], ReqFeatures)

\* two requests, larger datasets
InitOverlay ==
    /\ StoreAtRest
    /\ \E q \in {<<2016, W_jobs>>, <<2021, T_LandUseMix>>} :
          rq = NewRequest([precinctName |-> "Fishermans Bend",
                           year |-> [kind |-> "int", val |-> q[1]], indicator |-> q[2]],
                          OvFeatures)

\* one request per indicator text
InitResolve ==
    /\ StoreAtRest
    /\ \E t \in Texts :
          rq = NewRequest([precinctName |-> "Fishermans Bend",
                           year |-> [kind |-> "absent", val |-> 0], indicator |-> t], 0)

NextReq == Parse \/ Resolve \/ Select \/ LoadPrecincts \/ LoadData \/ Overlay

NextResolve == Parse \/ Resolve

\* the handler on requests of every shape
SpecReq == InitReq /\ [][NextReq]_vars

\* the handler's overlay on larger datasets
SpecOverlay == InitOverlay /\ [][NextReq]_vars

\* the handler's indicator resolution on many texts
SpecResolve == InitResolve /\ [][NextResolve]_vars

(***************************************************************************)
(* Claims about the GeoJSON store.                                         *)
(***************************************************************************)
InLoop(r) == r.pc \in {"read", "sleep", "acq_insert", "insert"}

\* C1 (as stated): when load_geojson raises, the cache holds no entry for the
\* requested path: with an entry left by an earlier successful load, the stale
\* entry is returned instead, whatever made the attempts fail.
C1_StaleInsteadOfRaise ==
    \A t \in Threads :
        (th[t].pc = "done" /\ th[t].result.kind = "raise")
            => th[t].result.entry = NoEntry

\* C2 (as stated): for a primary path with an existing mirror, a stale cached
\* copy is returned only after the mirrored path has been attempted, and the
\* mirror is attempted whenever the attempts on the primary path have failed.
C2_StaleAfterMirror ==
    \A t \in Threads :
        LET r == th[t]
        IN (r.pc = "done" /\ r.req = "pub" /\ Len(r.candidates) = 2
              /\ (r.result.kind = "stale" \/ r.result.path = "alt"
                    \/ r.result.kind = "raise"))
             => "alt" \in r.tried

\* C4: a load that ends with a successful read on a path made N <= 5 read
\* attempts on it (the first N-1 timed out), slept N-1 times and only between
\* attempts, returns the content it read, has stored {mtime, content} under
\* that path, and, when the path is the requested one, touched no other path.
C4_BoundedRetry ==
    \A t \in Threads :
        LET r == th[t]
            p == r.result.path
            N == r.nreads[p]
        IN /\ \A q \in Paths : r.nreads[q] <= MAX_IO_RETRIES /\ r.nsleeps[q] <= r.nreads[q]
           /\ r.pc = "sleep" => r.attempt < MAX_IO_RETRIES /\ r.last_err = "ETIMEDOUT"
           /\ (r.pc = "done" /\ r.result.kind = "read") =>
                 /\ N \in 1..MAX_IO_RETRIES
                 /\ r.nsleeps[p] = N - 1
                 /\ r.result.data.src = p
                 /\ r.result.data.ver \in r.result.mtime..fmtime[p]
                 /\ cache[p] = [mtime |-> r.result.mtime, data |-> r.result.data]
                 /\ p = r.req => r.tried = {p} /\ \A q \in Paths \ {p} : r.nreads[q] = 0

\* C4 witness: a read that succeeded on the fifth attempt, after four sleeps
C4_Witness ==
    \E t \in Threads :
        /\ th[t].pc = "done" /\ th[t].result.kind = "read" /\ th[t].req = "pub"
        /\ th[t].nreads["pub"] = MAX_IO_RETRIES /\ th[t].nsleeps["pub"] = MAX_IO_RETRIES - 1

\* C5: once a read attempt on a path has failed with a non-timeout OS error or
\* a non-I/O exception, the call makes no further read attempt and no backoff
\* sleep on that path; a sleep only ever follows a timeout.
C5_AbortRule ==
    \A t \in Threads :
        LET r == th[t]
        IN /\ \A p \in r.aborted : ~(InLoop(r) /\ Cand(r) = p)
           /\ r.pc = "sleep" => r.last_err = "ETIMEDOUT"
           /\ \A p \in r.aborted : r.nsleeps[p] = r.nreads[p] - 1

\* C5 witness: the loop on the primary path was aborted at its third attempt
\* and the call has moved on to the mirror
C5_Witness ==
    \E t \in Threads :
        /\ "pub" \in th[t].aborted /\ th[t].nreads["pub"] = 3
        /\ th[t].pc = "read" /\ Cand(th[t]) = "alt"

\* C6: the lookup returns the cached data, with no read of the file, exactly
\* when the cache holds an entry for the path whose mtime equals the mtime the
\* call observed; otherwise the file is read, and a successful read replaces
\* the entry by {observed mtime, data read}.
C6_MtimeValidation ==
    [][/\ \A t \in Threads :
            LET r == th[t]
                r2 == th'[t]
                c == cache[Cand(r)]
                hit == c # NoEntry /\ c.mtime = r.mtime
            IN /\ (r.pc = "lookup" /\ r2.pc # "lookup") =>
                    /\ hit <=> (r2.pc = "done" /\ r2.result.kind = "hit")
                    /\ hit => r2.result.data = c.data /\ r2.nreads[Cand(r)] = 0
                    /\ ~hit => r2.pc = "read" /\ r2.cached = c
               /\ (r.pc = "insert" /\ r2.pc # "insert") =>
                    /\ cache'[Cand(r)] = [mtime |-> r.mtime, data |-> r.data]
                    /\ r2.result.kind = "read" /\ r2.result.data = r.data
       /\ cache' # cache => \E t \in Threads : th[t].pc = "insert" /\ th'[t].pc = "done"]_vars

\* C6 witness: the entry found has another mtime than the file, the file has
\* been read and the new entry is about to replace the old one
C6_Witness ==
    \E t \in Threads :
        /\ th[t].pc = "insert"
        /\ th[t].cached # NoEntry /\ th[t].cached.mtime # th[t].mtime
        /\ th[t].data.ver = th[t].mtime

\* C7: a thread holding the cache lock is at the lookup or at the insert; a
\* thread that stats, reads or sleeps does not hold it.
C7_LockScope ==
    \A t \in Threads :
        /\ lock = t => th[t].pc \in {"lookup", "insert"}
        /\ th[t].pc \in {"lookup", "insert"} => lock = t
        /\ lock \in Threads \cup {None}

\* C7 witness: one thread is inside the critical section while the other is
\* sleeping between two attempts
C7_Witness ==
    \E t, u \in Threads : lock = t /\ th[u].pc = "sleep"

\* the run so far had no I/O failure and no rewrite of a file
Stable == left.faults = ConcFaults /\ left.rewrites = ConcRewrites

\* C8: with the file readable and unchanged, every completed load of a path
\* returned the file's content, the cache then holds the entry {current mtime,
\* content} for it, and a load begun with an entry in the cache is a hit that
\* reads nothing.
C8_Convergence ==
    Stable =>
        \A t \in Threads :
            LET r == th[t]
            IN /\ (r.pc = "done" /\ exists[r.req]) =>
                     /\ r.result.kind \in {"read", "hit"}
                     /\ r.result.path = r.req
                     /\ r.result.data = Content(r.req)
                     /\ cache[r.req] = [mtime |-> fmtime[r.req], data |-> Content(r.req)]
               /\ (r.warm /\ r.pc \notin {"stat", "acq_lookup", "lookup"}) =>
                     /\ r.pc = "done" /\ r.result.kind = "hit"
                     /\ r.nreads = NoCounts

\* C8 witness: both threads loaded the same path, one of them by its own read,
\* and the last load of the run was a hit
C8_Witness ==
    /\ Stable /\ left.calls = 0
    /\ th["t1"].pc = "done" /\ th["t2"].pc = "done"
    /\ th["t1"].req = "pub" /\ th["t2"].req = "pub"
    /\ th["t1"].result.kind = "hit" /\ th["t1"].warm
    /\ th["t2"].result.kind = "read" /\ ~th["t2"].warm

(***************************************************************************)
(* Claims about the precinct_overlay handler.                              *)
(***************************************************************************)
\* the year the request asks for, once int(data.get('year', 2011)) has run
RequestedYear(r) == IF r.body.year.kind = "absent" THEN 2011 ELSE r.body.year.val

\* the years for which the catalog names a value property of the key
DefinedYears(key) ==
    IF key \in {"socinfra", "housing_stress", "walkability"} THEN {2018, 2021}
    ELSE IF key \in {"age_mix", "income_mix"} THEN {2016, 2021}
    ELSE {2011, 2016, 2021}

DefaultKeys == {"socinfra", "housing_stress", "walkability"}

\* the request has gone through the dataset lookup
LookedUp(r) == r.pc \in {"load_precincts", "load_data", "overlay", "responded"} /\ r.ind_key # None

\* C3: for every key and every requested year outside the key's defined
\* years, a key with a documented default proceeds with year 2018, and every
\* other key fails with 400 'Unsupported year' and never returns a 200 result.
C3_UnsupportedYear ==
    (LookedUp(rq) /\ RequestedYear(rq) \notin DefinedYears(rq.ind_key))
        => IF rq.ind_key \in DefaultKeys
           THEN rq.year = 2018 /\ rq.data_file # None
           ELSE /\ rq.pc = "responded"
                /\ rq.response.status = 400
                /\ rq.response.error = "Unsupported year"

\* rule i of the resolution order holds for the lower-cased text s
RuleHolds(i, s) ==
    CASE i = 1 -> (Contains(W_spec, s) \/ Contains(W_industry, s))
      [] i = 2 -> ((Contains(W_social, s) /\ Contains(W_infra, s))
                     \/ (Contains(W_accessibility, s) /\ Contains(W_social, s)))
      [] i = 3 -> ((Contains(W_housing, s) /\ Contains(W_stress, s))
                     \/ (Contains(W_housing, s) /\ Contains(W_percent, s)))
      [] i = 4 -> ((Contains(W_land, s) /\ Contains(W_mix, s)) \/ Contains(W_lum, s))
      [] i = 5 -> (Contains(W_age, s) /\ (Contains(W_diversity, s) \/ Contains(W_resident, s)))
      [] i = 6 -> (Contains(W_income, s) /\ (Contains(W_diversity, s) \/ Contains(W_resident, s)))
      [] i = 7 -> Contains(W_walk, s)
      [] i = 8 -> (Contains(W_resident, s) /\ Contains(W_sa1, s))
      [] i = 9 -> Contains(W_dwell, s)
      [] i = 10 -> (Contains(W_resident, s) \/ Contains(W_mesh, s) \/ Contains(W_resdwel, s))

RuleKeys ==
    <<"spec", "socinfra", "housing_stress", "lum", "age_mix", "income_mix",
      "walkability", "residents_sa1", "dwellings", "residents">>

\* the key of the first rule that holds, 'jobs' when none does
FirstMatch(s) ==
    LET holding == {i \in 1..Len(RuleKeys) : RuleHolds(i, s)}
    IN IF holding = {} THEN "jobs"
       ELSE RuleKeys[CHOOSE i \in holding : \A j \in holding : i <= j]

\* C9: the resolved key is the key of the first rule, in the fixed order,
\* whose keywords occur in the text whatever its case, and 'jobs' when no rule
\* holds or the text is empty or blank; 'Housing Stress (%)' resolves to
\* housing_stress and 'industry specialisation' to spec.
C9_FirstMatchWins ==
    rq.ind_key # None =>
        /\ rq.ind_key = FirstMatch(Lower(rq.body.indicator))
        /\ (\A i \in 1..Len(RuleKeys) : ~RuleHolds(i, Lower(rq.body.indicator)))
               => rq.ind_key = "jobs"
        /\ (\A i \in 1..Len(rq.body.indicator) : rq.body.indicator[i] = " ")
               => rq.ind_key = "jobs"
        /\ rq.body.indicator = T_HousingStressPct => rq.ind_key = "housing_stress"
        /\ rq.body.indicator = T_IndustrySpecialisation => rq.ind_key = "spec"

\* a text for which a later rule holds too has been resolved by the earlier one
C9_Witness ==
    /\ rq.pc = "select"
    /\ rq.ind_key = "dwellings"
    /\ RuleHolds(10, Lower(rq.body.indicator))

FracEq(x, y) == x.num * y.den = y.num * x.den

\* C10: in every 200 result the intersections are in descending order of
\* areaPct, records of equal areaPct are in the order of their features in the
\* dataset, and intersectCount and dznIntersectCount are the length of the
\* sequence.
C10_SortedStable ==
    (rq.pc = "responded" /\ rq.response.status = 200) =>
        LET s == rq.response.intersections
        IN /\ \A i, j \in 1..Len(s) :
                i < j => /\ FracGeq(s[i].areaPct, s[j].areaPct)
                         /\ FracEq(s[i].areaPct, s[j].areaPct) => s[i].code < s[j].code
           /\ rq.response.intersectCount = Len(s)
           /\ rq.response.dznIntersectCount = Len(s)

\* a 200 result in which the sort has moved a later feature to the front and
\* has kept two features of equal areaPct
C10_Witness ==
    /\ rq.pc = "responded"
    /\ rq.response.status = 200
    /\ LET s == rq.response.intersections
       IN /\ Len(s) >= 3
          /\ \E i, j \in 1..Len(s) : i < j /\ s[i].code > s[j].code
          /\ \E i, j \in 1..Len(s) : i < j /\ FracEq(s[i].areaPct, s[j].areaPct)

\* the kinds of feature the loop cannot process
Malformed == {"notobj", "nogeom", "badgeom", "nullprops"}

\* the dataset without its feature i
WithoutFeature(feats, i) == SubSeq(feats, 1, i - 1) \o SubSeq(feats, i + 1, Len(feats))

\* the records of the dataset without feature i, under the positions the
\* features have in the whole dataset
Renumbered(recs, i, val_prop) ==
    [k \in 1..Len(recs) |->
        IF recs[k].code >= i
        THEN [recs[k] EXCEPT !.code = @ + 1, !.value = Value(val_prop, recs[k].code + 1)]
        ELSE recs[k]]

\* the handler has run its overlay on the two layers it loaded
Overlaid(r) == r.pc = "responded" /\ r.loads = 2 /\ r.response.error # "OSError"

\* the precinct part of the overlay succeeds: no dataset feature, 200
PrecinctOk(r) == ComputeOverlay([r EXCEPT !.data_fc = <<>>]).status = 200

\* C11: whatever malformed feature the dataset holds (no geometry, null
\* properties, unparseable coordinates, not an object), the response is a 200
\* result whose records are those of the dataset without that feature; an
\* error on one feature never makes the request an error response.
C11_FaultIsolation ==
    (Overlaid(rq) /\ PrecinctOk(rq)) =>
        \A i \in 1..Len(rq.data_fc) :
            rq.data_fc[i].kind \in Malformed =>
                /\ rq.response.status = 200
                /\ rq.response.intersections =
                      Renumbered(ComputeOverlay([rq EXCEPT !.data_fc =
                                     WithoutFeature(rq.data_fc, i)]).intersections,
                                 i, rq.val_prop)

\* C12: a request without a precinctName, or with an empty one, is answered
\* with 400 whatever its year and indicator hold, and every request answered
\* with 400 is answered before any GeoJSON load: nothing loaded, cache as it was.
C12_ValidationBeforeIO ==
    rq.pc = "responded" =>
        /\ rq.body.precinctName \in {None, ""} => rq.response.status = 400
        /\ rq.response.status = 400 =>
              /\ rq.loads = 0
              /\ cache = [p \in Paths |-> NoEntry]

(***************************************************************************)
(* Coherence of the cache under concurrent loads and rewrites.             *)
(***************************************************************************)
\* the entry e of path p holds content of p of version e.mtime or later
Coherent(p, e) == e.data.src = p /\ e.data.ver >= e.mtime /\ e.data.ver <= fmtime[p]

\* thread t leaves _load_from_single_path or load_geojson without having read
\* the file: a failed candidate, a raise, or the stale copy returned
FailsOrStale(t) ==
    \/ th[t].pc \in {"stat", "read"} /\ th'[t].pc = "stat" /\ th'[t].ci = th[t].ci + 1
    \/ th[t].pc # "done" /\ th'[t].pc = "done" /\ th'[t].result.kind \in {"raise", "stale"}

\* C13: in every interleaving of concurrent loads with rewrites that raise the
\* file's mtime, every cache entry {mtime m, data d} holds the content of the
\* version m of its file or of a later one, a hit returns content no older than
\* the mtime it matched, and a failed load or a stale return leaves the cache
\* as it was.
C13_CacheCoherence ==
    /\ [](/\ \A p \in Paths : cache[p] # NoEntry => Coherent(p, cache[p])
          /\ \A t \in Threads :
                (th[t].pc = "done" /\ th[t].result.kind = "hit") =>
                    /\ th[t].result.data.src = th[t].result.path
                    /\ th[t].result.data.ver >= th[t].result.mtime)
    /\ [][\A t \in Threads : FailsOrStale(t) => cache' = cache]_vars

\* C13 witness: a rewrite fell between the stat and the read of one load, so
\* the entry holds a later version than its mtime; the other thread's load of
\* the same path then failed to read and returned that entry as stale copy
C13_Witness ==
    \E p \in Paths, t \in Threads :
        /\ cache[p] # NoEntry /\ cache[p].data.ver > cache[p].mtime
        /\ th[t].pc = "done" /\ th[t].req = p
        /\ th[t].result.kind = "stale" /\ th[t].result.data = cache[p].data
        /\ \E u \in Threads \ {t} : th[u].pc = "done" /\ th[u].result.kind = "read"
====
